---- MODULE Spec2Model ----
(***************************************************************************)
(* Model of judges/minna_judge/minna_judge.py:                             *)
(*   MinnaQrelsCreator.create_qrels, MinnaQrelsCreator._parse_binary and   *)
(*   MinnaLeaderboardJudge.judge.                                          *)
(*                                                                         *)
(* Numbers that Python holds as floats in [0,1] (grade / 3.0,              *)
(* scores / len(claims), 0.5 * (c + a)) are kept as exact fractions        *)
(* <<numerator, denominator>>; probabilities of the entailment model are   *)
(* kept in percent.                                                        *)
(***************************************************************************)
EXTENDS Integers, Sequences, FiniteSets, TLC

VARIABLES
    pc,             \* position of the running method
    error,          \* the exception that ended the method, "" when none
    responses,      \* list(rag_responses)
    backend,        \* the LLM backend: whether run_batched raises, and its reply texts
    requests_info,  \* List[Tuple[run_id, topic_id, request]]
    dispatched,     \* the batches handed to backend.run_batched so far
    results,        \* what run_batched returned
    qrels,          \* judge: the qrels argument
    qrels_dict,     \* judge: (topic_id, doc_id) -> grade
    claims,         \* judge: (run_id, topic_id) -> parsed claim list
    idx,            \* judge: number of responses the scoring loop has taken
    nli_calls,      \* judge: number of nli_model.predict calls made so far
    builder,        \* judge: the entries added to the LeaderboardBuilder
    leaderboard,    \* judge: the returned leaderboard, NoValue before
    nugget_banks,   \* create_qrels: topic_id -> nuggets of the topic's bank
    scores,         \* create_qrels: (run_id, topic_id) -> list of 0/1
    grade_records,  \* create_qrels: List[GradeRecord]
    created,        \* create_qrels: the returned Qrels, NoValue before
    arg,            \* argument of a single function call
    ret             \* its return value

vars == <<pc, error, responses, backend, requests_info, dispatched, results,
          qrels, qrels_dict, claims, idx, nli_calls, builder, leaderboard,
          nugget_banks, scores, grade_records, created, arg, ret>>

judge_vars == <<qrels, qrels_dict, claims, idx, nli_calls, builder, leaderboard>>
qrels_vars == <<nugget_banks, scores, grade_records, created>>
call_vars  == <<arg, ret>>

----------------------------------------------------------------------------
(* Bounds and input domains *)

MaxResponses == 2
MaxClaims == 2
MaxDocs == 2
MaxNuggets == 6
MaxReplyLen == 4

Runs   == {"r1", "r2"}
Topics == {"t1", "t2"}
Texts  == {"alpha", "beta"}
Docs   == {"d1", "d2", "d3"}
ClaimStrs == {"A", "B"}
Grades == 0..3

NoValue == [none |-> TRUE]

Range(s) == {s[k] : k \in DOMAIN s}

SeqsUpTo(S, n) == UNION {[1..k -> S] : k \in 0..n}

Injective(s) == \A a, b \in DOMAIN s : s[a] = s[b] => a = b

Max(S) == CHOOSE m \in S : \A x \in S : x <= m

----------------------------------------------------------------------------
(* External collaborators *)

\* doc_id_md5(text): hex MD5 digest of the UTF-8 text.
doc_id_md5(text) ==
    CASE text = "alpha" -> "2c1743a391305fbf367df8e4f069f9f9"
      [] text = "beta"  -> "987bcab01b929eb2c07877b224215c92"
      [] OTHER          -> "05b048d7242cb7b8b57cfa3b1d65ecea"

\* nli_model.predict([(doc_text, claim)])[0]: the three class probabilities
\* in percent; index 2 here is Python's index 1, the entailment class.
\* d1 and d3 entail claim A only, d2 entails claim B only and gives exactly
\* 0.5 for claim A, which is not > 0.5.
NliPredict(doc, claim) ==
    CASE doc = "d1" /\ claim = "A" -> <<3, 93, 4>>
      [] doc = "d1" /\ claim = "B" -> <<90, 4, 6>>
      [] doc = "d2" /\ claim = "A" -> <<20, 50, 30>>
      [] doc = "d2" /\ claim = "B" -> <<19, 51, 30>>
      [] doc = "d3" /\ claim = "A" -> <<5, 88, 7>>
      [] OTHER                     -> <<30, 30, 40>>

\* json.loads(text): the parsed value, or JSONDecodeError.
\* A reply text is <<"garbage">> or <<"json", value>>.
json_loads(text) ==
    IF text[1] = "json"
    THEN [raised |-> "", value |-> text[2]]
    ELSE [raised |-> "JSONDecodeError", value |-> NoValue]

JsonArray(items) == [type |-> "array", items |-> items]
JsonNumber == [type |-> "number", items |-> <<>>]

----------------------------------------------------------------------------
(* MinnaLeaderboardJudge.judge: helpers *)

Key(response) == <<response.run_id, response.topic_id>>

DictGet(d, k, default) == IF k \in DOMAIN d THEN d[k] ELSE default

\* One dict assignment per (key, value) pair, in order: a later pair with
\* the same key overwrites the earlier one.
DictOf(keys, values) ==
    LET n == IF Len(keys) < Len(values) THEN Len(keys) ELSE Len(values) IN
    [k \in {keys[j] : j \in 1..n} |->
        values[Max({j \in 1..n : keys[j] = k})]]

\* qrels_dict: empty when no qrels are passed, else one item per row.
QrelsDict(q) ==
    IF q = NoValue
    THEN <<>>
    ELSE [k \in {<<r.topic_id, r.doc_id>> : r \in q.rows} |->
            (CHOOSE r \in q.rows : <<r.topic_id, r.doc_id>> = k).grade]

ParsedClaimsNone(text) ==
    LET r == json_loads(text) IN
    IF r.raised = "JSONDecodeError" THEN [type |-> "none", items |-> <<>>]
    ELSE r.value

\* try: parsed = json.loads(result.text)  except JSONDecodeError: parsed = []
ParsedClaims(text) ==
    LET r == json_loads(text) IN
    IF r.raised = "JSONDecodeError" THEN JsonArray(<<>>) ELSE r.value

\* score[0][1] > 0.5
Entailed(score) == score[2] > 50

SupportedFirstOnly(documents, claim) ==
    documents # <<>> /\ Entailed(NliPredict(Head(documents), claim))

\* The inner loop over response.documents.items(), in insertion order,
\* leaving at the first supporting document.
RECURSIVE Supported(_, _)
Supported(documents, claim) ==
    IF documents = <<>> THEN FALSE
    ELSE IF Entailed(NliPredict(Head(documents), claim)) THEN TRUE
    ELSE Supported(Tail(documents), claim)

\* Number of nli_model.predict calls that inner loop makes.
RECURSIVE PredictCalls(_, _)
PredictCalls(documents, claim) ==
    IF documents = <<>> THEN 0
    ELSE IF Entailed(NliPredict(Head(documents), claim)) THEN 1
    ELSE 1 + PredictCalls(Tail(documents), claim)

\* scores += 1 for every supporting document, the loop not left.
RECURSIVE CountSupportedNoBreak(_, _)
CountSupportedNoBreak(claim_list, documents) ==
    IF claim_list = <<>> THEN 0
    ELSE Cardinality({j \in DOMAIN documents :
                        Entailed(NliPredict(documents[j], Head(claim_list)))})
         + CountSupportedNoBreak(Tail(claim_list), documents)

\* scores after the loop over claims[key].
RECURSIVE CountSupported(_, _)
CountSupported(claim_list, documents) ==
    IF claim_list = <<>> THEN 0
    ELSE (IF Supported(documents, Head(claim_list)) THEN 1 ELSE 0)
         + CountSupported(Tail(claim_list), documents)

RECURSIVE TotalPredictCalls(_, _)
TotalPredictCalls(claim_list, documents) ==
    IF claim_list = <<>> THEN 0
    ELSE PredictCalls(documents, Head(claim_list))
         + TotalPredictCalls(Tail(claim_list), documents)

\* attribution = scores/len(claims[key]) if claims[key] else 0.0
Attribution(claim_list, documents) ==
    IF claim_list # <<>>
    THEN <<CountSupported(claim_list, documents), Len(claim_list)>>
    ELSE <<0, 1>>

CompletenessFloorDiv(qd, topic_id, text_id) ==
    <<DictGet(qd, <<topic_id, text_id>>, 0) \div 3, 1>>

\* completeness = qrels_dict.get((topic_id, text_id), 0) / 3.0
Completeness(qd, topic_id, text_id) ==
    <<DictGet(qd, <<topic_id, text_id>>, 0), 3>>

\* 0.5 * completeness + attribution
FinalScoreUnweighted(completeness, attribution) ==
    <<completeness[1] * attribution[2] + 2 * attribution[1] * completeness[2],
      2 * completeness[2] * attribution[2]>>

\* 0.5 * (completeness + attribution)
FinalScore(completeness, attribution) ==
    <<completeness[1] * attribution[2] + attribution[1] * completeness[2],
      2 * completeness[2] * attribution[2]>>

\* The values handed to builder.add for one response.
Values(response, claim_list, qd) ==
    LET attribution == Attribution(claim_list, response.documents)
        completeness == Completeness(qd, response.topic_id,
                                     doc_id_md5(response.text))
    IN [COMPLETENESS_SCORE |-> completeness,
        ATTRIBUTION_SCORE |-> attribution,
        FINAL_SCORE |-> FinalScore(completeness, attribution)]

\* LeaderboardBuilder.add: the builder accumulates one entry per call.
BuilderAdd(b, run_id, topic_id, values) ==
    Append(b, [run_id |-> run_id, topic_id |-> topic_id, values |-> values])

\* LeaderboardBuilder.build: the leaderboard holds the added entries.
BuilderBuild(b) == [entries |-> b]

----------------------------------------------------------------------------
(* MinnaLeaderboardJudge.judge: steps *)

\* for response in responses: requests_info.append((run_id, topic_id, request))
JudgeBuildRequests ==
    /\ pc = "judge"
    /\ requests_info' = [j \in 1..Len(responses) |->
            <<responses[j].run_id, responses[j].topic_id,
              [content |-> responses[j].text]>>]
    /\ pc' = "judge_requests"
    /\ UNCHANGED <<error, responses, backend, dispatched, results>>
    /\ UNCHANGED judge_vars
    /\ UNCHANGED qrels_vars
    /\ UNCHANGED call_vars

\* The calls of backend.run_batched: one, with [req for _, _, req in requests_info].
BatchesPerRequest(reqs) == [j \in DOMAIN reqs |-> <<reqs[j]>>]

Batches(reqs) == <<reqs>>

\* results = asyncio.run(backend.run_batched([...])): an exception of the
\* runner is not caught.
JudgeRunBatched ==
    /\ pc = "judge_requests"
    /\ dispatched' = dispatched \o Batches(requests_info)
    /\ IF backend.fails
       THEN /\ pc' = "raised"
            /\ error' = "RunnerError"
            /\ UNCHANGED results
       ELSE /\ pc' = "judge_batched"
            /\ results' = backend.texts
            /\ UNCHANGED error
    /\ UNCHANGED <<responses, backend, requests_info>>
    /\ UNCHANGED judge_vars
    /\ UNCHANGED qrels_vars
    /\ UNCHANGED call_vars

\* qrels_dict, then claims[(run_id, topic_id)] = parsed for each result.
JudgeCollect ==
    /\ pc = "judge_batched"
    /\ qrels_dict' = QrelsDict(qrels)
    /\ claims' = DictOf([j \in DOMAIN requests_info |->
                            <<requests_info[j][1], requests_info[j][2]>>],
                        [j \in DOMAIN results |-> ParsedClaims(results[j])])
    /\ idx' = 0
    /\ pc' = "judge_scoring"
    /\ UNCHANGED <<error, responses, backend, requests_info, dispatched, results>>
    /\ UNCHANGED <<qrels, nli_calls, builder, leaderboard>>
    /\ UNCHANGED qrels_vars
    /\ UNCHANGED call_vars

\* One pass of "for response in responses": iterating a parsed value that
\* is no list, str or dict raises TypeError; else the entry is added.
JudgeScore ==
    /\ pc = "judge_scoring"
    /\ idx < Len(responses)
    /\ LET response == responses[idx + 1]
           parsed == claims[Key(response)]
       IN IF parsed.type # "array"
          THEN /\ pc' = "raised"
               /\ error' = "TypeError"
               /\ UNCHANGED <<idx, nli_calls, builder>>
          ELSE /\ builder' = BuilderAdd(builder, response.run_id,
                                 response.topic_id,
                                 Values(response, parsed.items, qrels_dict))
               /\ nli_calls' = nli_calls
                      + TotalPredictCalls(parsed.items, response.documents)
               /\ idx' = idx + 1
               /\ UNCHANGED <<pc, error>>
    /\ UNCHANGED <<responses, backend, requests_info, dispatched, results>>
    /\ UNCHANGED <<qrels, qrels_dict, claims, leaderboard>>
    /\ UNCHANGED qrels_vars
    /\ UNCHANGED call_vars

\* leaderboard = builder.build(...); return leaderboard
JudgeBuild ==
    /\ pc = "judge_scoring"
    /\ idx = Len(responses)
    /\ leaderboard' = BuilderBuild(builder)
    /\ pc' = "done"
    /\ UNCHANGED <<error, responses, backend, requests_info, dispatched, results>>
    /\ UNCHANGED <<qrels, qrels_dict, claims, idx, nli_calls, builder>>
    /\ UNCHANGED qrels_vars
    /\ UNCHANGED call_vars

JudgeNext ==
    \/ JudgeBuildRequests
    \/ JudgeRunBatched
    \/ JudgeCollect
    \/ JudgeScore
    \/ JudgeBuild

----------------------------------------------------------------------------
(* MinnaQrelsCreator._parse_binary *)

Whitespace == {" "}

LowerChar(c) ==
    CASE c = "Y" -> "y"
      [] c = "E" -> "e"
      [] c = "S" -> "s"
      [] OTHER   -> c

\* str.lower()
Lower(s) == [k \in DOMAIN s |-> LowerChar(s[k])]

RECURSIVE LStrip(_)
LStrip(s) ==
    IF s # <<>> /\ Head(s) \in Whitespace THEN LStrip(Tail(s)) ELSE s

RECURSIVE RStrip(_)
RStrip(s) ==
    IF s # <<>> /\ s[Len(s)] \in Whitespace
    THEN RStrip(SubSeq(s, 1, Len(s) - 1)) ELSE s

\* str.rstrip()
StripRightOnly(s) == RStrip(s)

\* str.strip()
Strip(s) == RStrip(LStrip(s))

\* str.startswith(prefix)
StartsWith(s, prefix) ==
    Len(s) >= Len(prefix) /\ SubSeq(s, 1, Len(prefix)) = prefix

\* The try block: reading result.text of a result without text raises.
ParseBinaryBody(result) ==
    IF "text" \notin DOMAIN result
    THEN [raised |-> "AttributeError", value |-> 0]
    ELSE LET text == Lower(Strip(result.text)) IN
         IF StartsWith(text, <<"1">>) \/ StartsWith(text, <<"y", "e", "s">>)
         THEN [raised |-> "", value |-> 1]
         ELSE [raised |-> "", value |-> 0]

\* try: ... except: return 0
_parse_binary(result) ==
    LET r == ParseBinaryBody(result) IN
    IF r.raised # "" THEN [raised |-> "", value |-> 0] ELSE r

\* One call of _parse_binary on the result in arg.
ParseBinaryCall ==
    /\ pc = "parse_binary"
    /\ LET r == _parse_binary(arg) IN
       IF r.raised # ""
       THEN pc' = "raised" /\ error' = r.raised /\ UNCHANGED ret
       ELSE pc' = "returned" /\ ret' = r.value /\ UNCHANGED error
    /\ UNCHANGED <<responses, backend, requests_info, dispatched, results, arg>>
    /\ UNCHANGED judge_vars
    /\ UNCHANGED qrels_vars

----------------------------------------------------------------------------
(* MinnaQrelsCreator.create_qrels: helpers *)

RECURSIVE Sum(_)
Sum(s) == IF s = <<>> THEN 0 ELSE Head(s) + Sum(Tail(s))

\* round(num / den), Python 3: to the nearest integer, a tie to the even one.
Round(num, den) ==
    LET q == num \div den
        r == num % den
    IN IF 2 * r < den THEN q
       ELSE IF 2 * r > den THEN q + 1
       ELSE IF q % 2 = 0 THEN q ELSE q + 1

\* grade = int(3*(sum(tallies)/len(tallies)) + 0.5)
GradeHalfUp(tallies) == (6 * Sum(tallies) + Len(tallies)) \div (2 * Len(tallies))

\* grade = round(3*(sum(tallies)/len(tallies)))
Grade(tallies) == Round(3 * Sum(tallies), Len(tallies))

\* The first loop: no request for a topic absent from nugget_banks.banks,
\* one request per nugget of the topic's bank otherwise.
RECURSIVE QrelsRequests(_, _)
QrelsRequests(resps, banks) ==
    IF resps = <<>> THEN <<>>
    ELSE LET response == Head(resps)
             topic_id == response.topic_id
             nuggets == IF topic_id \notin DOMAIN banks THEN <<>>
                        ELSE banks[topic_id]
         IN [k \in DOMAIN nuggets |->
                <<response.run_id, topic_id,
                  [question |-> nuggets[k], response |-> response.text]>>]
            \o QrelsRequests(Tail(resps), banks)

\* scores.setdefault((run_id, topic_id), []).append(score), over
\* zip(requests_info, results).
RECURSIVE ScoresOf(_, _, _)
ScoresOf(reqs, res, acc) ==
    IF reqs = <<>> \/ res = <<>> THEN acc
    ELSE LET key == <<Head(reqs)[1], Head(reqs)[2]>>
             score == _parse_binary(Head(res)).value
             old == DictGet(acc, key, <<>>)
         IN ScoresOf(Tail(reqs), Tail(res),
                     [k \in DOMAIN acc \cup {key} |->
                         IF k = key THEN Append(old, score) ELSE acc[k]])

\* The second loop with a grade of 0 where the key is not in scores.
RECURSIVE GradeRecordsNoSkip(_, _)
GradeRecordsNoSkip(resps, sc) ==
    IF resps = <<>> THEN <<>>
    ELSE LET response == Head(resps) IN
         <<[topic_id |-> response.topic_id, text |-> response.text,
            grade |-> IF Key(response) \notin DOMAIN sc THEN 0
                      ELSE Grade(sc[Key(response)])]>>
         \o GradeRecordsNoSkip(Tail(resps), sc)

\* The second loop: a response whose key is not in scores is skipped.
RECURSIVE GradeRecords(_, _)
GradeRecords(resps, sc) ==
    IF resps = <<>> THEN <<>>
    ELSE LET response == Head(resps) IN
         (IF Key(response) \notin DOMAIN sc THEN <<>>
          ELSE <<[topic_id |-> response.topic_id, text |-> response.text,
                  grade |-> Grade(sc[Key(response)])]>>)
         \o GradeRecords(Tail(resps), sc)

\* MINIMAL_QRELS_SPEC
QrelsTopicId(r) == r.topic_id
QrelsDocIdPlain(r) == r.text
QrelsDocId(r) == doc_id_md5(r.text)
QrelsGrade(r) == r.grade
OnDuplicate == "keep_max"

\* build_qrels(records, spec): one row per (topic_id, doc_id); on_duplicate
\* "keep_max" keeps the highest grade of the records that share the key.
build_qrels(records) ==
    LET keys == {<<QrelsTopicId(records[k]), QrelsDocId(records[k])>> :
                    k \in DOMAIN records}
        same(key) == {k \in DOMAIN records :
                        <<QrelsTopicId(records[k]), QrelsDocId(records[k])>> = key}
    IN [rows |-> {[topic_id |-> key[1], doc_id |-> key[2],
                   grade |-> IF OnDuplicate = "keep_max"
                             THEN Max({QrelsGrade(records[k]) : k \in same(key)})
                             ELSE QrelsGrade(records[Max(same(key))])] :
                  key \in keys}]

----------------------------------------------------------------------------
(* MinnaQrelsCreator.create_qrels: steps *)

\* for response in responses: ... requests_info.append(...); reading
\* nugget_banks.banks of None raises AttributeError.
QrelsBuildRequests ==
    /\ pc = "create_qrels"
    /\ IF nugget_banks = NoValue /\ responses # <<>>
       THEN /\ pc' = "raised"
            /\ error' = "AttributeError"
            /\ UNCHANGED requests_info
       ELSE /\ pc' = "qrels_requests"
            /\ requests_info' =
                  IF responses = <<>> THEN <<>>
                  ELSE QrelsRequests(responses, nugget_banks.banks)
            /\ UNCHANGED error
    /\ UNCHANGED <<responses, backend, dispatched, results>>
    /\ UNCHANGED judge_vars
    /\ UNCHANGED qrels_vars
    /\ UNCHANGED call_vars

\* results = asyncio.run(backend.run_batched([req for _, _, req in requests_info]))
QrelsRunBatched ==
    /\ pc = "qrels_requests"
    /\ dispatched' = dispatched \o Batches(requests_info)
    /\ IF backend.fails
       THEN /\ pc' = "raised"
            /\ error' = "RunnerError"
            /\ UNCHANGED results
       ELSE /\ pc' = "qrels_batched"
            /\ results' = backend.texts
            /\ UNCHANGED error
    /\ UNCHANGED <<responses, backend, requests_info>>
    /\ UNCHANGED judge_vars
    /\ UNCHANGED qrels_vars
    /\ UNCHANGED call_vars

\* scores = {}; for (run_id, topic_id, _), result in zip(requests_info, results)
QrelsCollect ==
    /\ pc = "qrels_batched"
    /\ scores' = ScoresOf(requests_info, results, <<>>)
    /\ pc' = "qrels_scored"
    /\ UNCHANGED <<error, responses, backend, requests_info, dispatched, results>>
    /\ UNCHANGED <<nugget_banks, grade_records, created>>
    /\ UNCHANGED judge_vars
    /\ UNCHANGED call_vars

\* for response in responses: ... grade_records.append(GradeRecord(...))
QrelsGradeAll ==
    /\ pc = "qrels_scored"
    /\ grade_records' = GradeRecords(responses, scores)
    /\ pc' = "qrels_graded"
    /\ UNCHANGED <<error, responses, backend, requests_info, dispatched, results>>
    /\ UNCHANGED <<nugget_banks, scores, created>>
    /\ UNCHANGED judge_vars
    /\ UNCHANGED call_vars

\* qrels = build_qrels(records=grade_records, spec=MINIMAL_QRELS_SPEC); return qrels
QrelsBuild ==
    /\ pc = "qrels_graded"
    /\ created' = build_qrels(grade_records)
    /\ pc' = "done"
    /\ UNCHANGED <<error, responses, backend, requests_info, dispatched, results>>
    /\ UNCHANGED <<nugget_banks, scores, grade_records>>
    /\ UNCHANGED judge_vars
    /\ UNCHANGED call_vars

QrelsNext ==
    \/ QrelsBuildRequests
    \/ QrelsRunBatched
    \/ QrelsCollect
    \/ QrelsGradeAll
    \/ QrelsBuild

----------------------------------------------------------------------------
(* Inputs of judge *)

\* Reports: one per (run_id, topic_id) pair.
DocLists(n) == {d \in SeqsUpTo(Docs, n) : Injective(d)}

ReportsOver(texts, doclists) ==
    [run_id : Runs, topic_id : Topics, text : texts, documents : doclists]

UniqueKeys(rs) == \A a, b \in DOMAIN rs : Key(rs[a]) = Key(rs[b]) => a = b

\* Qrels as build_qrels makes them: at most one row per (topic_id, doc_id).
QrelsRows == [topic_id : Topics, doc_id : {doc_id_md5(t) : t \in Texts},
              grade : Grades]

QrelsInputs ==
    {NoValue} \cup {[rows |-> {}]} \cup {[rows |-> {r}] : r \in QrelsRows}

ClaimTexts(n) ==
    {<<"garbage">>, <<"json", JsonNumber>>}
        \cup {<<"json", JsonArray(c)>> : c \in SeqsUpTo(ClaimStrs, n)}

IdleJudge ==
    /\ qrels = NoValue /\ qrels_dict = <<>> /\ claims = <<>> /\ idx = 0
    /\ nli_calls = 0 /\ builder = <<>> /\ leaderboard = NoValue

IdleQrels ==
    /\ nugget_banks = <<>> /\ scores = <<>> /\ grade_records = <<>>
    /\ created = NoValue

IdleCall == arg = NoValue /\ ret = NoValue

\* One response, with every claim list, document list and qrels table.
InitScore ==
    /\ pc = "judge" /\ error = ""
    /\ responses \in {<<r>> : r \in ReportsOver(Texts, DocLists(MaxDocs))}
    /\ backend \in [fails : {FALSE}, texts : {<<t>> : t \in ClaimTexts(MaxClaims)}]
    /\ requests_info = <<>> /\ dispatched = <<>> /\ results = <<>>
    /\ qrels \in QrelsInputs
    /\ qrels_dict = <<>> /\ claims = <<>> /\ idx = 0
    /\ nli_calls = 0 /\ builder = <<>> /\ leaderboard = NoValue
    /\ IdleQrels /\ IdleCall

SpecScore == InitScore /\ [][JudgeNext]_vars

\* Several responses; the backend may fail, and each reply is garbage, a
\* JSON number or a JSON array of claims.
JudgeReplyTexts ==
    {<<"garbage">>, <<"json", JsonNumber>>, <<"json", JsonArray(<<"A">>)>>,
     <<"json", JsonArray(<<"A", "B">>)>>}

JudgeQrels ==
    {NoValue,
     [rows |-> {[topic_id |-> "t1", doc_id |-> doc_id_md5("alpha"), grade |-> 2]}]}

InitJudge ==
    /\ pc = "judge" /\ error = ""
    /\ responses \in {rs \in SeqsUpTo(ReportsOver({"alpha"}, {<<>>, <<"d1">>}),
                                      MaxResponses) : UniqueKeys(rs)}
    /\ backend \in [fails : BOOLEAN,
                    texts : [1..Len(responses) -> JudgeReplyTexts]]
    /\ requests_info = <<>> /\ dispatched = <<>> /\ results = <<>>
    /\ qrels \in JudgeQrels
    /\ qrels_dict = <<>> /\ claims = <<>> /\ idx = 0
    /\ nli_calls = 0 /\ builder = <<>> /\ leaderboard = NoValue
    /\ IdleQrels /\ IdleCall

SpecJudge == InitJudge /\ [][JudgeNext]_vars

----------------------------------------------------------------------------
(* Inputs of create_qrels and _parse_binary *)

IdleRun ==
    /\ error = "" /\ requests_info = <<>> /\ dispatched = <<>> /\ results = <<>>

Chars == {" ", "1", "0", "y", "Y", "e", "E", "s", "S"}

\* A result with a reply text of up to MaxReplyLen characters, or one whose
\* text cannot be read.
InitParse ==
    /\ pc = "parse_binary"
    /\ arg \in {NoValue} \cup {[text |-> t] : t \in SeqsUpTo(Chars, MaxReplyLen)}
    /\ ret = NoValue
    /\ responses = <<>> /\ backend = NoValue
    /\ IdleRun /\ IdleJudge /\ IdleQrels

SpecParse == InitParse /\ [][ParseBinaryCall]_vars

\* The nuggets of a bank of n questions.
Nuggets(n) == [k \in 1..n |-> k]

PlainReports(texts) ==
    [run_id : Runs, topic_id : Topics, text : texts, documents : {<<>>}]

YesNo == {[text |-> <<"Y", "e", "s">>], [text |-> <<"0">>]}

NumRequests(resps, banks) ==
    IF resps = <<>> \/ banks = NoValue THEN 0
    ELSE Len(QrelsRequests(resps, banks.banks))

\* One response and a bank of up to MaxNuggets nuggets for a topic.
InitGrade ==
    /\ pc = "create_qrels"
    /\ responses \in {<<r>> : r \in PlainReports({"alpha"})}
    /\ nugget_banks \in {[banks |-> [t \in {"t1"} |-> Nuggets(n)]] :
                            n \in 0..MaxNuggets}
    /\ backend \in [fails : {FALSE},
                    texts : [1..NumRequests(responses, nugget_banks) -> YesNo]]
    /\ scores = <<>> /\ grade_records = <<>> /\ created = NoValue
    /\ IdleRun /\ IdleJudge /\ IdleCall

SpecGrade == InitGrade /\ [][QrelsNext]_vars

\* Several responses; topic t1 has no bank, an empty bank or a bank of three
\* nuggets, topic t2 no bank, an empty bank or a bank of one nugget; the
\* nugget banks may be missing and the backend may fail.
BankSizes == [t1 |-> {0, 3}, t2 |-> {0, 1}]

BankChoices ==
    {NoValue} \cup
    {[banks |-> b] :
        b \in UNION {{f \in [T -> {Nuggets(n) : n \in {0, 1, 3}}] :
                        \A t \in T : Len(f[t]) \in BankSizes[t]} :
                     T \in SUBSET Topics}}

InitQrels ==
    /\ pc = "create_qrels"
    /\ responses \in {rs \in SeqsUpTo(PlainReports(Texts), MaxResponses) :
                         UniqueKeys(rs)}
    /\ nugget_banks \in BankChoices
    /\ backend \in {[fails |-> TRUE, texts |-> <<>>]} \cup
                    [fails : {FALSE},
                     texts : [1..NumRequests(responses, nugget_banks) -> YesNo]]
    /\ scores = <<>> /\ grade_records = <<>> /\ created = NoValue
    /\ IdleRun /\ IdleJudge /\ IdleCall

SpecQrels == InitQrels /\ [][QrelsNext]_vars

----------------------------------------------------------------------------
(* Properties of MinnaLeaderboardJudge.judge *)

RatEq(a, b) == a[1] * b[2] = b[1] * a[2]

InUnit(a) == a[2] > 0 /\ 0 <= a[1] /\ a[1] <= a[2]

\* The claim list the LLM reply of response j yields: the items of a JSON
\* array, nothing when the reply is no JSON.
ExtractedClaims(j) ==
    IF backend.texts[j][1] = "json" THEN backend.texts[j][2].items ELSE <<>>

\* A claim is supported when some document of the mapping entails it.
SomeDocEntails(documents, claim) ==
    \E d \in Range(documents) : NliPredict(d, claim)[2] > 50

Reorderings(s) ==
    {p \in [DOMAIN s -> Range(s)] : Range(p) = Range(s) /\ Len(p) = Len(s)}

\* C1: in every entry added to the builder, FINAL_SCORE is the unweighted
\* mean 0.5 x COMPLETENESS_SCORE + 0.5 x ATTRIBUTION_SCORE of the same entry.
C1_FinalIsMean ==
    \A j \in DOMAIN builder :
        LET v == builder[j].values
            c == v.COMPLETENESS_SCORE
            a == v.ATTRIBUTION_SCORE
            f == v.FINAL_SCORE
        IN 2 * f[1] * c[2] * a[2] = f[2] * (c[1] * a[2] + a[1] * c[2])

C1_Witness ==
    \E j \in DOMAIN builder :
        /\ RatEq(builder[j].values.COMPLETENESS_SCORE, <<1, 3>>)
        /\ RatEq(builder[j].values.ATTRIBUTION_SCORE, <<1, 2>>)
        /\ RatEq(builder[j].values.FINAL_SCORE, <<5, 12>>)

\* C2: with qrels grades in 0..3, every emitted COMPLETENESS_SCORE,
\* ATTRIBUTION_SCORE and FINAL_SCORE lies in [0,1].
C2_ScoresInUnit ==
    \A j \in DOMAIN builder :
        /\ InUnit(builder[j].values.COMPLETENESS_SCORE)
        /\ InUnit(builder[j].values.ATTRIBUTION_SCORE)
        /\ InUnit(builder[j].values.FINAL_SCORE)

C2_Witness ==
    \E j \in DOMAIN builder :
        /\ RatEq(builder[j].values.COMPLETENESS_SCORE, <<1, 1>>)
        /\ RatEq(builder[j].values.ATTRIBUTION_SCORE, <<1, 1>>)
        /\ RatEq(builder[j].values.FINAL_SCORE, <<1, 1>>)
        /\ Len(responses[j].documents) = 2
        /\ \A d \in Range(responses[j].documents) :
              NliPredict(d, "A")[2] > 50

\* C3: ATTRIBUTION_SCORE of a response is (number of its extracted claims
\* that some document of its mapping entails with probability > 0.5) /
\* (number of its extracted claims), 0.0 for no claims, and the same in
\* whatever order the documents are visited.
C3_Attribution ==
    \A j \in DOMAIN builder :
        LET cl == ExtractedClaims(j)
            docs == responses[j].documents
            a == builder[j].values.ATTRIBUTION_SCORE
            n == Cardinality({k \in DOMAIN cl : SomeDocEntails(docs, cl[k])})
        IN /\ a[2] > 0
           /\ IF cl = <<>> THEN a[1] = 0 ELSE a[1] * Len(cl) = n * a[2]
           /\ \A p \in Reorderings(docs) : RatEq(Attribution(cl, p), a)

C3_Witness ==
    \E j \in DOMAIN builder :
        /\ ExtractedClaims(j) = <<"A", "B">>
        /\ responses[j].documents = <<"d3", "d1">>
        /\ RatEq(builder[j].values.ATTRIBUTION_SCORE, <<1, 2>>)

\* C4: COMPLETENESS_SCORE of a response is grade / 3.0 for the qrels row
\* keyed by (its topic_id, MD5 of its own text), and 0.0, with no error,
\* when there is no such row or no qrels at all.
C4_Completeness ==
    \A j \in DOMAIN responses :
        LET r == responses[j]
            rows == IF qrels = NoValue THEN {}
                    ELSE {q \in qrels.rows : /\ q.topic_id = r.topic_id
                                              /\ q.doc_id = doc_id_md5(r.text)}
        IN /\ j \in DOMAIN builder =>
                LET c == builder[j].values.COMPLETENESS_SCORE IN
                IF rows = {} THEN c[1] = 0 /\ c[2] > 0
                ELSE \A q \in rows : c[1] * 3 = q.grade * c[2] /\ c[2] > 0
           /\ (pc = "raised" /\ idx = j - 1) => backend.texts[j] = <<"json", JsonNumber>>

C4_Witness ==
    \E j \in DOMAIN builder :
        /\ qrels # NoValue
        /\ \E q \in qrels.rows : /\ q.topic_id = responses[j].topic_id
                                 /\ q.doc_id = doc_id_md5(responses[j].text)
                                 /\ q.grade = 2
        /\ builder[j].values.COMPLETENESS_SCORE = <<2, 3>>

\* C5: a claim-extraction reply that is no JSON is recovered locally: the
\* response is scored with an empty claim list, so its ATTRIBUTION_SCORE is
\* 0.0; such a reply never ends the run, and the other responses are still
\* scored and added.
C5_ParseFailureRecovered ==
    /\ \A j \in DOMAIN builder :
          backend.texts[j] = <<"garbage">> =>
              /\ builder[j].values.ATTRIBUTION_SCORE[1] = 0
              /\ builder[j].values.ATTRIBUTION_SCORE[2] > 0
    /\ pc = "raised" =>
          \/ error = "RunnerError" /\ backend.fails
          \/ /\ error = "TypeError"
             /\ backend.texts[idx + 1] = <<"json", JsonNumber>>
    /\ (pc = "judge_scoring" /\ idx < Len(responses)
            /\ backend.texts[idx + 1] # <<"json", JsonNumber>>) =>
          ENABLED (JudgeScore /\ pc' = "judge_scoring" /\ idx' = idx + 1)
    /\ pc = "done" =>
          /\ Len(builder) = Len(responses)
          /\ leaderboard = [entries |-> builder]

C5_Witness ==
    /\ pc = "done"
    /\ Len(responses) = 2
    /\ backend.texts[1] = <<"garbage">>
    /\ backend.texts[2] = <<"json", JsonArray(<<"A">>)>>
    /\ responses[1].documents = <<"d1">>
    /\ builder[1].values.ATTRIBUTION_SCORE = <<0, 1>>
    /\ builder[2].values.ATTRIBUTION_SCORE = <<1, 1>>

\* C10: the claim-extraction requests, one per response in input order,
\* go out as one batch; before it has returned there is no entailment
\* check, no add and no leaderboard; the adds follow the input order of the
\* responses, the build comes after the last add; when the runner raises,
\* the exception ends the run with no entry added and no leaderboard.
C10_BatchThenSequentialAdds ==
    /\ Len(dispatched) <= 1
    /\ \A b \in DOMAIN dispatched :
          dispatched[b] = [j \in DOMAIN responses |->
              <<responses[j].run_id, responses[j].topic_id,
                [content |-> responses[j].text]>>]
    /\ pc \in {"judge", "judge_requests"} =>
          nli_calls = 0 /\ builder = <<>> /\ leaderboard = NoValue
    /\ (nli_calls > 0 \/ builder # <<>> \/ leaderboard # NoValue) =>
          Len(dispatched) = 1 /\ Len(results) = Len(responses)
    /\ Len(builder) = idx /\ idx <= Len(responses)
    /\ \A j \in DOMAIN builder :
          /\ builder[j].run_id = responses[j].run_id
          /\ builder[j].topic_id = responses[j].topic_id
    /\ leaderboard # NoValue =>
          pc = "done" /\ Len(builder) = Len(responses)
    /\ backend.fails =>
          /\ pc \in {"judge", "judge_requests", "raised"}
          /\ nli_calls = 0 /\ builder = <<>> /\ leaderboard = NoValue
          /\ pc = "raised" => error = "RunnerError"

C10_Witness ==
    /\ pc = "done"
    /\ Len(builder) = 2
    /\ Len(dispatched) = 1 /\ Len(dispatched[1]) = 2
    /\ nli_calls = 3

----------------------------------------------------------------------------
(* Properties of MinnaQrelsCreator *)

Abs(x) == IF x < 0 THEN -x ELSE x

\* The 0/1 reading of the replies of the backend, in request order.
ReplyBits == [k \in DOMAIN backend.texts |->
                 IF backend.texts[k].text = <<"Y", "e", "s">> THEN 1 ELSE 0]

\* Number of nuggets of the bank of a response's topic, 0 without a bank.
NuggetCount(response) ==
    IF response.topic_id \in DOMAIN nugget_banks.banks
    THEN Len(nugget_banks.banks[response.topic_id]) ELSE 0

\* C6: the grade recorded for a response is 3 x the mean of the 0/1
\* scores of its key, one score per nugget of its topic, rounded to the
\* nearest integer, an exact .5 tie going to the even integer; it is in
\* 0..3, and 3 when every score is 1.
C6_GradeRounding ==
    pc \in {"qrels_graded", "done"} =>
        LET n == NuggetCount(responses[1])
            total == Sum(ReplyBits)
        IN IF n = 0 THEN grade_records = <<>>
           ELSE /\ Len(grade_records) = 1
                /\ scores[Key(responses[1])] = ReplyBits
                /\ Len(ReplyBits) = n
                /\ LET g == grade_records[1].grade IN
                   /\ g \in 0..3
                   /\ 2 * Abs(3 * total - g * n) <= n
                   /\ 2 * Abs(3 * total - g * n) = n => g % 2 = 0
                   /\ total = n => g = 3

C6_Witness ==
    /\ pc = "done"
    /\ Len(ReplyBits) = 6
    /\ Sum(ReplyBits) = 5
    /\ grade_records[1].grade = 2

\* C7: with nugget banks given, a response whose topic has no bank or an
\* empty bank gets no LLM query and no grade record, and raises nothing;
\* every other response gets exactly one query per nugget of its topic and
\* exactly one grade record.
C7_SkippedResponses ==
    nugget_banks # NoValue =>
        /\ pc = "raised" => error = "RunnerError" /\ backend.fails
        /\ pc # "create_qrels" =>
              /\ \A j \in DOMAIN responses : \A q \in 1..(Len(requests_info) + 1) :
                    Cardinality({k \in DOMAIN requests_info :
                        /\ requests_info[k][1] = responses[j].run_id
                        /\ requests_info[k][2] = responses[j].topic_id
                        /\ requests_info[k][3].question = q
                        /\ requests_info[k][3].response = responses[j].text})
                    = IF q <= NuggetCount(responses[j]) THEN 1 ELSE 0
              /\ \A k \in DOMAIN requests_info : \E j \in DOMAIN responses :
                    /\ requests_info[k][1] = responses[j].run_id
                    /\ requests_info[k][2] = responses[j].topic_id
                    /\ NuggetCount(responses[j]) > 0
              /\ \A b \in DOMAIN dispatched : dispatched[b] = requests_info
        /\ pc \in {"qrels_graded", "done"} =>
              LET graded == SelectSeq(responses,
                                LAMBDA r : NuggetCount(r) > 0)
              IN /\ Len(grade_records) = Len(graded)
                 /\ \A k \in DOMAIN grade_records :
                       /\ grade_records[k].topic_id = graded[k].topic_id
                       /\ grade_records[k].text = graded[k].text

C7_Witness ==
    /\ pc = "done"
    /\ Len(responses) = 2
    /\ nugget_banks # NoValue
    /\ DOMAIN nugget_banks.banks = Topics
    /\ NuggetCount(responses[1]) = 0
    /\ NuggetCount(responses[2]) = 3
    /\ Len(requests_info) = 3
    /\ Len(grade_records) = 1
    /\ Cardinality(created.rows) = 1

\* C9: the returned qrels hold exactly one row per distinct (topic_id, MD5
\* of the response text) of the grade records, and the row's grade is the
\* maximum of the grades of the records that share the key.
C9_QrelsKeepMax ==
    created # NoValue =>
        /\ \A a, b \in created.rows :
              (a.topic_id = b.topic_id /\ a.doc_id = b.doc_id) => a = b
        /\ \A k \in DOMAIN grade_records : \E row \in created.rows :
              /\ row.topic_id = grade_records[k].topic_id
              /\ row.doc_id = doc_id_md5(grade_records[k].text)
        /\ \A row \in created.rows :
              LET same == {k \in DOMAIN grade_records :
                              /\ grade_records[k].topic_id = row.topic_id
                              /\ doc_id_md5(grade_records[k].text) = row.doc_id}
              IN /\ same # {}
                 /\ \A k \in same : grade_records[k].grade <= row.grade
                 /\ \E k \in same : grade_records[k].grade = row.grade
        /\ {<<row.topic_id, row.doc_id>> : row \in created.rows}
              = {<<responses[j].topic_id, doc_id_md5(responses[j].text)>> :
                    j \in {i \in DOMAIN responses : NuggetCount(responses[i]) > 0}}

C9_Witness ==
    /\ created # NoValue
    /\ Len(grade_records) = 2
    /\ grade_records[1].topic_id = grade_records[2].topic_id
    /\ grade_records[1].text = grade_records[2].text
    /\ grade_records[1].grade = 1
    /\ grade_records[2].grade = 3
    /\ created.rows = {[topic_id |-> grade_records[1].topic_id,
                        doc_id |-> doc_id_md5(grade_records[1].text),
                        grade |-> 3]}

\* C8: _parse_binary returns 1 exactly when the reply text, leading
\* whitespace dropped and case ignored, begins with "1" or "yes"; it
\* returns 0 otherwise, also for a result without readable text, and it
\* never raises.
BeginsYes(t) ==
    \E k \in 0..Len(t) :
        /\ \A i \in 1..k : t[i] = " "
        /\ \/ k + 1 <= Len(t) /\ t[k + 1] = "1"
           \/ /\ k + 3 <= Len(t)
              /\ t[k + 1] \in {"y", "Y"}
              /\ t[k + 2] \in {"e", "E"}
              /\ t[k + 3] \in {"s", "S"}

C8_ParseBinary ==
    /\ pc # "raised" /\ error = ""
    /\ pc = "returned" =>
          /\ ret \in {0, 1}
          /\ ret = 1 <=> ("text" \in DOMAIN arg /\ BeginsYes(arg.text))

C8_Witness ==
    /\ pc = "returned"
    /\ arg = [text |-> <<" ", "Y", "e", "S">>]
    /\ ret = 1

====
